---- MODULE Spec2Model ----
(***************************************************************************)
(* Model of the DreamDuo task backend: the closure-table hierarchy engine  *)
(* (server/models/task_utils.py) and the dependency graph engine           *)
(* (server/models/task_dependency.py) over one relational store.           *)
(*                                                                         *)
(* Every operation runs in one request-scoped transaction; an action of    *)
(* the model is one whole call, commit or rollback included.               *)
(***************************************************************************)
EXTENDS Integers, FiniteSets, Sequences, TLC

\* ------------------------------------------------------------------ bounds
MaxTaskId == 3      \* ids the tasks table may hand out
NumUsers == 2       \* users issuing calls
MaxDepId == 4       \* ids the task_dependencies table may hand out
MaxAllDepId == 1    \* dependency ids in the store specification
NumDepTasks == 3    \* tasks of user 1 the dependency specification starts with

\* Python's None (a NULL column); ids handed out by the store start at 1.
None == 0

Users == 1..NumUsers
TaskIds == 1..MaxTaskId
DepIds == 1..MaxDepId
DepTaskIds == 1..(NumDepTasks + 1)

VARIABLES
    tasks,              \* tasks table: id -> [user_id, parent_id]
    task_hierarchy,     \* closure table: set of [ancestor, descendant, depth]
    task_dependencies,  \* set of [id, source_task_id, target_task_id, user_id]
    fk_enforced,        \* TRUE: PostgreSQL (foreign keys checked, id sequences)
                        \* FALSE: SQLite as the app and its tests open it
                        \*        (foreign keys not checked, id = max(id) + 1)
    task_id_seq,        \* PostgreSQL sequence behind tasks.id
    dep_id_seq,         \* PostgreSQL sequence behind task_dependencies.id
    priorities,         \* priorities table: set of [level, user_id]
    requests,           \* the two requests in flight: [move, delete]
    last                \* the last call: [op, a, b, user, result]

vars == <<tasks, task_hierarchy, task_dependencies, fk_enforced,
          task_id_seq, dep_id_seq, priorities, requests, last>>

\* No request is between two of its statements.
NoRequests == [move |-> [pc |-> "idle"], delete |-> [pc |-> "idle"]]

\* ----------------------------------------------------------------- helpers
Max(S) == CHOOSE x \in S : \A y \in S : y <= x

Row(a, d, k) == [ancestor |-> a, descendant |-> d, depth |-> k]

Keys(rows) == {<<r.ancestor, r.descendant>> : r \in rows}

Call(op, a, b, u, res) == [op |-> op, a |-> a, b |-> b, user |-> u, result |-> res]

\* The task look-up with the owner filter left out.
FindTask_NoOwnerFilter(id, user_id) ==
    id \in DOMAIN tasks

\* session.query(Task).filter(Task.id == id) [.filter(Task.user_id == user_id)].first()
\* `if user_id:` skips the owner filter for a falsy user_id.
FindTask(id, user_id) ==
    /\ id \in DOMAIN tasks
    /\ (user_id # None => tasks[id].user_id = user_id)

\* The id the store gives the next inserted task.
NextTaskId ==
    IF fk_enforced THEN task_id_seq
    ELSE IF DOMAIN tasks = {} THEN 1 ELSE Max(DOMAIN tasks) + 1

\* The id the store gives the next inserted dependency.
NextDepId ==
    IF fk_enforced THEN dep_id_seq
    ELSE IF task_dependencies = {} THEN 1
         ELSE Max({e.id : e \in task_dependencies}) + 1

\* -------------------------------------------------------------- add_task
\* The copied ancestor rows with `depth` in place of `depth + 1`.
AddTaskRows_SameDepth(new, parent_id) ==
    IF parent_id # None
    THEN {Row(r.ancestor, new, r.depth) :
              r \in {q \in task_hierarchy : q.descendant = parent_id}}
         \cup {Row(new, new, 0)}
    ELSE {Row(new, new, 0)}

\* INSERT INTO task_hierarchy SELECT ancestor, :new, depth + 1 ... WHERE
\* descendant = :parent UNION ALL SELECT :new, :new, 0   (parent given)
\* INSERT INTO task_hierarchy VALUES (:new, :new, 0)       (no parent)
AddTaskRows(new, parent_id) ==
    IF parent_id # None
    THEN {Row(r.ancestor, new, r.depth + 1) :
              r \in {q \in task_hierarchy : q.descendant = parent_id}}
         \cup {Row(new, new, 0)}
    ELSE {Row(new, new, 0)}

\* The constraints the store checks on add_task's two INSERTs: the primary key
\* of task_hierarchy always, the foreign keys only when the store enforces them.
AddTaskViolates(new, parent_id) ==
    LET rows == AddTaskRows(new, parent_id) IN
    \/ Keys(rows) \cap Keys(task_hierarchy) # {}
    \/ Cardinality(Keys(rows)) # Cardinality(rows)
    \/ /\ fk_enforced
       /\ \/ parent_id # None /\ parent_id \notin (DOMAIN tasks \cup {new})
          \/ \E r \in rows : r.ancestor \notin (DOMAIN tasks \cup {new})

add_task(user_id, parent_id) ==
    LET new == NextTaskId IN
    /\ new <= MaxTaskId
    /\ task_id_seq' = IF fk_enforced THEN task_id_seq + 1 ELSE task_id_seq
    /\ IF AddTaskViolates(new, parent_id)
       THEN \* IntegrityError leaves add_task; the caller rolls back
            /\ UNCHANGED <<tasks, task_hierarchy>>
            /\ last' = Call("add_task", None, parent_id, user_id, "error")
       ELSE /\ tasks' = [i \in DOMAIN tasks \cup {new} |->
                            IF i = new
                            THEN [user_id |-> user_id, parent_id |-> parent_id]
                            ELSE tasks[i]]
            /\ task_hierarchy' = task_hierarchy \cup AddTaskRows(new, parent_id)
            /\ last' = Call("add_task", new, parent_id, user_id, "ok")
    /\ UNCHANGED <<task_dependencies, fk_enforced, dep_id_seq, priorities, requests>>

\* ------------------------------------------------------------ delete_task
\* SELECT descendant FROM task_hierarchy WHERE ancestor = :task_id AND depth > 0
Descendants(task_id) ==
    {r.descendant : r \in {q \in task_hierarchy :
                               q.ancestor = task_id /\ q.depth > 0}}

\* Branch `if descendant_ids:` -- two raw DELETE statements over all_ids.
\* Rows of other tables that still point at a deleted task make the DELETE
\* fail where foreign keys are enforced, and are left dangling where not.
DeleteRawHierarchy(all_ids) ==
    {r \in task_hierarchy : r.ancestor \notin all_ids /\ r.descendant \notin all_ids}

DeleteRawTasks(all_ids) ==
    [i \in DOMAIN tasks \ all_ids |-> tasks[i]]

DeleteRawViolates(all_ids) ==
    /\ fk_enforced
    /\ \/ \E i \in DOMAIN tasks \ all_ids : tasks[i].parent_id \in all_ids
       \/ \E e \in task_dependencies :
              e.source_task_id \in all_ids \/ e.target_task_id \in all_ids

\* Branch `else:` -- raw DELETE of the task's closure rows, then
\* session.delete(task). The unit of work blanks the foreign key of every row
\* the deleted task's relationships own: Task.subtasks (parent_id, nullable)
\* and the outgoing/incoming dependencies (source/target_task_id, NOT NULL, so
\* the flush raises IntegrityError on either store).
DeleteOrmHierarchy(task_id) ==
    {r \in task_hierarchy : r.ancestor # task_id /\ r.descendant # task_id}

DeleteOrmTasks(task_id) ==
    [i \in DOMAIN tasks \ {task_id} |->
        IF tasks[i].parent_id = task_id
        THEN [tasks[i] EXCEPT !.parent_id = None]
        ELSE tasks[i]]

DeleteOrmViolates(task_id) ==
    \E e \in task_dependencies :
        e.source_task_id = task_id \/ e.target_task_id = task_id

delete_task(task_id, user_id) ==
    /\ IF ~FindTask(task_id, user_id)
       THEN /\ UNCHANGED <<tasks, task_hierarchy>>
            /\ last' = Call("delete_task", task_id, None, user_id, "False")
       ELSE LET descendant_ids == Descendants(task_id)
                all_ids == {task_id} \cup descendant_ids
                failed == IF descendant_ids # {}
                          THEN DeleteRawViolates(all_ids)
                          ELSE DeleteOrmViolates(task_id)
            IN  IF failed
                THEN \* except: session.rollback(); return False
                     /\ UNCHANGED <<tasks, task_hierarchy>>
                     /\ last' = Call("delete_task", task_id, None, user_id, "False")
                ELSE /\ task_hierarchy' = IF descendant_ids # {}
                                          THEN DeleteRawHierarchy(all_ids)
                                          ELSE DeleteOrmHierarchy(task_id)
                     /\ tasks' = IF descendant_ids # {}
                                 THEN DeleteRawTasks(all_ids)
                                 ELSE DeleteOrmTasks(task_id)
                     /\ last' = Call("delete_task", task_id, None, user_id, "True")
    /\ UNCHANGED <<task_dependencies, fk_enforced, task_id_seq, dep_id_seq, priorities, requests>>

\* ----------------------------------------------------------- move_subtask
\* The rejections with the is_descendant look-up left out.
MoveRejected_NoDescendantCheck(subtask_id, new_parent_id, user_id) ==
    \/ ~FindTask(subtask_id, user_id)
    \/ /\ new_parent_id # None
       /\ \/ ~FindTask(new_parent_id, user_id)
          \/ subtask_id = new_parent_id

\* The rejections before the try block.
MoveRejected(subtask_id, new_parent_id, user_id) ==
    \/ ~FindTask(subtask_id, user_id)
    \/ /\ new_parent_id # None
       /\ \/ ~FindTask(new_parent_id, user_id)
          \/ subtask_id = new_parent_id
          \/ \E r \in task_hierarchy :
                 r.ancestor = subtask_id /\ r.descendant = new_parent_id

\* SELECT descendant FROM task_hierarchy WHERE ancestor = :subtask_id
MoveDescendantIds(subtask_id) ==
    {r.descendant : r \in {q \in task_hierarchy : q.ancestor = subtask_id}}

\* The move without the DELETE that severs the subtree from its old ancestors.
MoveSevered_KeepAll(D) ==
    task_hierarchy

\* The DELETE that also removes the rows inside the subtree.
MoveSevered_DropInternal(D) ==
    {r \in task_hierarchy : r.descendant \notin D}

\* The DELETE of every row that touches the subtree at either end.
MoveSevered_WholeSubtree(D) ==
    {r \in task_hierarchy : r.descendant \notin D /\ r.ancestor \notin D}

\* DELETE FROM task_hierarchy WHERE descendant IN (D) AND ancestor NOT IN (D)
MoveSevered(D) ==
    {r \in task_hierarchy : ~(r.descendant \in D /\ r.ancestor \notin D)}

\* SELECT depth ... WHERE ancestor = :subtask_id AND descendant = :descendant_id
\* read after the DELETE; the set is empty when the row is gone.
MoveSubtaskDepth(hier, subtask_id, descendant_id) ==
    {r.depth : r \in {q \in hier : q.ancestor = subtask_id
                                   /\ q.descendant = descendant_id}}

\* The rows the nested loops upsert. No upserted row has ancestor subtask_id
\* (a row (subtask_id, new_parent_id) was ruled out before), so the depth
\* look-ups inside the loop read what they read before the first upsert.
MoveNewRows(hier, D, subtask_id, new_parent_id) ==
    IF new_parent_id # None
    THEN {Row(a.ancestor, d, a.depth + k + 1) :
              <<a, d, k>> \in {x \in {q \in hier : q.descendant = new_parent_id}
                                     \X D \X (0..MaxTaskId) :
                                  x[3] \in MoveSubtaskDepth(hier, subtask_id, x[2])}}
    ELSE {Row(subtask_id, d, k) :
              <<d, k>> \in {x \in D \X (0..MaxTaskId) :
                               x[2] \in MoveSubtaskDepth(hier, subtask_id, x[1])}}

\* INSERT ... ON CONFLICT (ancestor, descendant) DO UPDATE SET depth = EXCLUDED.depth
Upsert(hier, rows) ==
    {r \in hier : <<r.ancestor, r.descendant>> \notin Keys(rows)} \cup rows

\* The call returns False and writes nothing.
MoveFails(subtask_id, new_parent_id, user_id) ==
    \/ MoveRejected(subtask_id, new_parent_id, user_id)
    \/ MoveDescendantIds(subtask_id) = {}

\* task_hierarchy after the DELETE and the upserts of the try block
MoveHierarchy(subtask_id, new_parent_id) ==
    LET D == MoveDescendantIds(subtask_id)
        severed == MoveSevered(D)
    IN  Upsert(severed, MoveNewRows(severed, D, subtask_id, new_parent_id))

\* tasks after `subtask.parent_id = new_parent_id`
MoveTasks(subtask_id, new_parent_id) ==
    [tasks EXCEPT ![subtask_id].parent_id = new_parent_id]

move_subtask(subtask_id, new_parent_id, user_id) ==
    /\ IF MoveFails(subtask_id, new_parent_id, user_id)
       THEN /\ UNCHANGED <<tasks, task_hierarchy>>
            /\ last' = Call("move_subtask", subtask_id, new_parent_id, user_id, "False")
       ELSE /\ task_hierarchy' = MoveHierarchy(subtask_id, new_parent_id)
            /\ tasks' = MoveTasks(subtask_id, new_parent_id)
            /\ last' = Call("move_subtask", subtask_id, new_parent_id, user_id, "True")
    /\ UNCHANGED <<task_dependencies, fk_enforced, task_id_seq, dep_id_seq, priorities, requests>>

\* ----------------------------------------------- hierarchy specification
NoCall == Call("none", None, None, None, "none")

Init ==
    /\ tasks = <<>>
    /\ task_hierarchy = {}
    /\ task_dependencies = {}
    /\ fk_enforced \in BOOLEAN
    /\ task_id_seq = 1
    /\ dep_id_seq = 1
    /\ priorities = {}
    /\ requests = NoRequests
    /\ last = NoCall

AddTask == \E u \in Users, p \in {None} \cup TaskIds : add_task(u, p)

DeleteTask == \E t \in TaskIds, u \in Users : delete_task(t, u)

MoveSubtask ==
    \E t \in TaskIds, p \in {None} \cup TaskIds, u \in Users : move_subtask(t, p, u)

Next == AddTask \/ DeleteTask \/ MoveSubtask

Spec == Init /\ [][Next]_vars

\* ------------------------------------------------------- closure invariant
\* The tasks reached from t by following parent_id pointers downward k times.
RECURSIVE Level(_, _)
Level(t, k) ==
    IF k = 0 THEN {t}
    ELSE {c \in DOMAIN tasks : tasks[c].parent_id \in Level(t, k - 1)}

PointerSubtree(t) == UNION {Level(t, k) : k \in 0..MaxTaskId}

ClosureRowsOf(t) == {r \in task_hierarchy : r.ancestor = t}

ClosureHolds ==
    \A t \in DOMAIN tasks :
        /\ {r.descendant : r \in ClosureRowsOf(t)} = PointerSubtree(t)
        /\ \A r \in ClosureRowsOf(t) : r.descendant \in Level(t, r.depth)

\* C1: in every state reachable by add_task, move_subtask and delete_task
\* calls, the closure rows of every existing task t name exactly the tasks
\* reachable from t by parent_id pointers, each at its path length.
C1_ClosureInvariant == ClosureHolds

\* ------------------------------------------------------ would_create_cycle
Dep(id, s, t, u) ==
    [id |-> id, source_task_id |-> s, target_task_id |-> t, user_id |-> u]

\* session.query(TaskDependency).filter_by(user_id=user_id).all(), in id order
RECURSIVE DepsById(_)
DepsById(S) ==
    IF S = {} THEN <<>>
    ELSE LET e == CHOOSE x \in S : \A y \in S : x.id <= y.id
         IN  <<e>> \o DepsById(S \ {e})

UserDeps(user_id) == {e \in task_dependencies : e.user_id = user_id}

\* targets of the dependencies leaving node, in list order
RECURSIVE TargetsOf(_, _)
TargetsOf(deps, node) ==
    IF deps = <<>> THEN <<>>
    ELSE (IF Head(deps).source_task_id = node
          THEN <<Head(deps).target_task_id>> ELSE <<>>)
         \o TargetsOf(Tail(deps), node)

\* The adjacency lists `graph`: one key per source of a stored dependency,
\* then graph[target_id].append(source_id).
BuildGraph(user_id, source_id, target_id) ==
    LET deps == DepsById(UserDeps(user_id))
        keys == {e.source_task_id : e \in UserDeps(user_id)} \cup {target_id}
    IN  [n \in keys |->
            TargetsOf(deps, n) \o (IF n = target_id THEN <<source_id>> ELSE <<>>)]

\* has_cycle(node) with its two sets threaded through: the result and the
\* visited set after the call (rec_stack is restored on every False return).
RECURSIVE has_cycle(_, _, _, _)
RECURSIVE has_cycle_loop(_, _, _, _, _)
has_cycle(graph, node, visited, rec_stack) ==
    IF node \in DOMAIN graph
    THEN has_cycle_loop(graph, graph[node], 1,
                        visited \cup {node}, rec_stack \cup {node})
    ELSE [found |-> FALSE, visited |-> visited \cup {node}]

has_cycle_loop(graph, neighbors, i, visited, rec_stack) ==
    IF i > Len(neighbors)
    THEN [found |-> FALSE, visited |-> visited]
    ELSE LET neighbor == neighbors[i] IN
         IF neighbor \notin visited
         THEN LET r == has_cycle(graph, neighbor, visited, rec_stack) IN
              IF r.found THEN r
              ELSE has_cycle_loop(graph, neighbors, i + 1, r.visited, rec_stack)
         ELSE IF neighbor \in rec_stack
              THEN [found |-> TRUE, visited |-> visited]
              ELSE has_cycle_loop(graph, neighbors, i + 1, visited, rec_stack)

would_create_cycle(source_id, target_id, user_id) ==
    has_cycle(BuildGraph(user_id, source_id, target_id), source_id, {}, {}).found

\* ---------------------------------------------------------- add_dependency
\* add_dependency whose duplicate check forgets the target column.
AddDependencyResult_NoTargetFilter(source_id, target_id, user_id) ==
    IF ~(source_id \in DOMAIN tasks /\ tasks[source_id].user_id = user_id
         /\ target_id \in DOMAIN tasks /\ tasks[target_id].user_id = user_id)
    THEN "not_found"
    ELSE IF source_id = target_id THEN "same_task"
    ELSE IF \E e \in task_dependencies :
                /\ e.source_task_id = source_id
                /\ e.user_id = user_id
         THEN "exists"
    ELSE IF would_create_cycle(source_id, target_id, user_id) THEN "circular"
    ELSE "ok"

\* add_dependency without the `source_id == target_id` rejection.
AddDependencyResult_NoSameTaskCheck(source_id, target_id, user_id) ==
    IF ~(source_id \in DOMAIN tasks /\ tasks[source_id].user_id = user_id
         /\ target_id \in DOMAIN tasks /\ tasks[target_id].user_id = user_id)
    THEN "not_found"
    ELSE IF \E e \in task_dependencies :
                /\ e.source_task_id = source_id
                /\ e.target_task_id = target_id
                /\ e.user_id = user_id
         THEN "exists"
    ELSE IF would_create_cycle(source_id, target_id, user_id) THEN "circular"
    ELSE "ok"

\* add_dependency without the `existing` look-up.
AddDependencyResult_NoDuplicateCheck(source_id, target_id, user_id) ==
    IF ~(source_id \in DOMAIN tasks /\ tasks[source_id].user_id = user_id
         /\ target_id \in DOMAIN tasks /\ tasks[target_id].user_id = user_id)
    THEN "not_found"
    ELSE IF source_id = target_id THEN "same_task"
    ELSE IF would_create_cycle(source_id, target_id, user_id) THEN "circular"
    ELSE "ok"

\* The ValueError add_dependency raises, or "ok".
AddDependencyResult(source_id, target_id, user_id) ==
    IF ~(source_id \in DOMAIN tasks /\ tasks[source_id].user_id = user_id
         /\ target_id \in DOMAIN tasks /\ tasks[target_id].user_id = user_id)
    THEN "not_found"
    ELSE IF source_id = target_id THEN "same_task"
    ELSE IF \E e \in task_dependencies :
                /\ e.source_task_id = source_id
                /\ e.target_task_id = target_id
                /\ e.user_id = user_id
         THEN "exists"
    ELSE IF would_create_cycle(source_id, target_id, user_id) THEN "circular"
    ELSE "ok"

add_dependency(source_id, target_id, user_id) ==
    LET res == AddDependencyResult(source_id, target_id, user_id) IN
    /\ res = "ok" => NextDepId <= MaxDepId
    /\ IF res = "ok"
       THEN /\ task_dependencies' = task_dependencies \cup
                    {Dep(NextDepId, source_id, target_id, user_id)}
            /\ dep_id_seq' = IF fk_enforced THEN dep_id_seq + 1 ELSE dep_id_seq
       ELSE UNCHANGED <<task_dependencies, dep_id_seq>>
    /\ last' = Call("add_dependency", source_id, target_id, user_id, res)
    /\ UNCHANGED <<tasks, task_hierarchy, fk_enforced, task_id_seq, priorities, requests>>

\* ------------------------------------------------------- remove_dependency
remove_dependency(dependency_id, user_id) ==
    LET found == {e \in task_dependencies :
                      e.id = dependency_id /\ e.user_id = user_id} IN
    /\ IF found = {}
       THEN /\ UNCHANGED task_dependencies
            /\ last' = Call("remove_dependency", dependency_id, None, user_id, "not_found")
       ELSE /\ task_dependencies' = task_dependencies \ found
            /\ last' = Call("remove_dependency", dependency_id, None, user_id, "True")
    /\ UNCHANGED <<tasks, task_hierarchy, fk_enforced, task_id_seq, dep_id_seq, priorities, requests>>

\* ---------------------------------------------- dependency specification
\* NumDepTasks root tasks of user 1, as NumDepTasks add_task calls leave them;
\* user 2 owns nothing and id NumDepTasks + 1 names no task.
InitDep ==
    /\ tasks = [i \in 1..NumDepTasks |-> [user_id |-> 1, parent_id |-> None]]
    /\ task_hierarchy = {Row(i, i, 0) : i \in 1..NumDepTasks}
    /\ task_dependencies = {}
    /\ fk_enforced \in BOOLEAN
    /\ task_id_seq = NumDepTasks + 1
    /\ dep_id_seq = 1
    /\ priorities = {}
    /\ requests = NoRequests
    /\ last = NoCall

AddDependency ==
    \E s \in DepTaskIds, t \in DepTaskIds, u \in Users : add_dependency(s, t, u)

RemoveDependency ==
    \E d \in DepIds, u \in Users : remove_dependency(d, u)

NextDep == AddDependency \/ RemoveDependency

SpecDep == InitDep /\ [][NextDep]_vars

\* Directed paths of one user's dependency edges.
Edges(user_id) ==
    {<<e.source_task_id, e.target_task_id>> : e \in UserDeps(user_id)}

RECURSIVE ReachFrom(_, _, _)
ReachFrom(E, frontier, seen) ==
    LET next == {e[2] : e \in {x \in E : x[1] \in frontier}} \ seen IN
    IF next = {} THEN seen ELSE ReachFrom(E, next, seen \cup next)

\* a path of at least one edge leads from a to b
HasPath(E, a, b) == b \in ReachFrom(E, {a}, {})

Acyclic(E) == \A e \in E : ~HasPath(E, e[1], e[1])

\* C2: after any sequence of add_dependency and remove_dependency calls from
\* an empty edge set, no user's dependency edges contain a directed cycle.
C2_DependencyAcyclic == \A u \in Users : Acyclic(Edges(u))

\* C3: a call add_dependency(An, A1) made when a chain A1 -> ... -> An of the
\* caller's edges exists is rejected as circular and leaves the edges as they were.
C3_ChainClosingRejected ==
    [][(/\ last'.op = "add_dependency"
        /\ last'.a # last'.b
        /\ HasPath(Edges(last'.user), last'.b, last'.a))
       => (last'.result = "circular" /\ task_dependencies' = task_dependencies)]_vars

\* ------------------------------------------------- diamond specification
\* Tasks A, B, C, D = 1, 2, 3, 4 of user 1 and the four calls of
\* test_valid_dag_structure, each issued once, in any order.
DiamondEdges == {<<1, 2>>, <<1, 3>>, <<2, 4>>, <<3, 4>>}

DiamondTasks == {e[1] : e \in DiamondEdges} \cup {e[2] : e \in DiamondEdges}

InitDiamond ==
    /\ tasks = [i \in DiamondTasks |-> [user_id |-> 1, parent_id |-> None]]
    /\ task_hierarchy = {Row(i, i, 0) : i \in DiamondTasks}
    /\ task_dependencies = {}
    /\ fk_enforced \in BOOLEAN
    /\ task_id_seq = Max(DiamondTasks) + 1
    /\ dep_id_seq = 1
    /\ priorities = {}
    /\ requests = NoRequests
    /\ last = NoCall

Issued(e) ==
    \E d \in task_dependencies :
        d.source_task_id = e[1] /\ d.target_task_id = e[2]

AddDiamondEdge ==
    \E e \in DiamondEdges : ~Issued(e) /\ add_dependency(e[1], e[2], 1)

NextDiamond == AddDiamondEdge

SpecDiamond == InitDiamond /\ [][NextDiamond]_vars

\* C4: each of the four diamond calls succeeds whatever the order, one stored
\* edge per call, and once all four were made the edges are exactly the diamond.
C4_DiamondAccepted ==
    /\ last.op = "add_dependency" => last.result = "ok"
    /\ Edges(1) \subseteq DiamondEdges
    /\ Cardinality(task_dependencies) = Cardinality(Edges(1))
    /\ (~ENABLED NextDiamond) => Edges(1) = DiamondEdges

C4_Witness ==
    /\ last.op = "add_dependency" /\ last.result = "ok"
    /\ Edges(1) = DiamondEdges

\* ------------------------------------------------- hierarchy call properties
\* p is recorded in the closure table as a proper descendant of t.
IsClosureDescendant(t, p) ==
    \E r \in task_hierarchy : r.ancestor = t /\ r.descendant = p /\ r.depth >= 1

\* C5: move_subtask(t, p) with p = t, or p recorded as a descendant of t at any
\* depth >= 1, returns False and changes no Task row and no closure row.
C5_TreeCycleRejected ==
    [][(/\ last'.op = "move_subtask"
        /\ \/ last'.b = last'.a
           \/ IsClosureDescendant(last'.a, last'.b))
       => (/\ last'.result = "False"
           /\ tasks' = tasks
           /\ task_hierarchy' = task_hierarchy)]_vars

\* a rejected move whose target sits two levels below the moved task
C5_Witness ==
    /\ last.op = "move_subtask" /\ last.result = "False"
    /\ \E r \in task_hierarchy :
           r.ancestor = last.a /\ r.descendant = last.b /\ r.depth = 2

\* The rows p's ancestors (p included) must hold for subtree member m after the move.
MovedAncestorRows(t, p, m) ==
    {Row(a.ancestor, m, a.depth + k.depth + 1) :
         <<a, k>> \in {q \in task_hierarchy : q.descendant = p}
                      \X {q \in task_hierarchy : q.ancestor = t /\ q.descendant = m}}

\* The rows m keeps from ancestors inside the moved subtree D.
InternalRows(D, m) ==
    {r \in task_hierarchy : r.descendant = m /\ r.ancestor \in D}

\* C6: after move_subtask(t, p) returns True for a task p, t.parent_id = p and
\* every member m of t's subtree has as ancestor rows exactly p's ancestor rows
\* (p included) at depth(anc, p) + depth(t, m) + 1 and its rows from inside the
\* subtree at their old depth; no row from a former ancestor remains.
C6_MoveCorrect ==
    [][(/\ last'.op = "move_subtask"
        /\ last'.result = "True"
        /\ last'.b # None)
       => LET t == last'.a
              p == last'.b
              D == {r.descendant : r \in {q \in task_hierarchy : q.ancestor = t}}
          IN  /\ tasks'[t].parent_id = p
              /\ \A m \in D :
                     {r \in task_hierarchy' : r.descendant = m}
                         = MovedAncestorRows(t, p, m) \cup InternalRows(D, m)]_vars

\* a two-task subtree moved under another task, two levels above its leaf
C6_Witness ==
    /\ last.op = "move_subtask" /\ last.result = "True" /\ last.b # None
    /\ \E r \in task_hierarchy :
           r.ancestor = last.b /\ r.depth = 2 /\ tasks[r.descendant].parent_id = last.a

\* C7: after delete_task(t) returns True exactly t and its descendants are gone
\* from tasks, no closure row names any of them, and every other Task row and
\* every closure row between other tasks is as before.
C7_CascadeDelete ==
    [][(last'.op = "delete_task" /\ last'.result = "True")
       => LET all_ids == {last'.a} \cup Descendants(last'.a)
          IN  /\ DOMAIN tasks' = DOMAIN tasks \ all_ids
              /\ \A i \in DOMAIN tasks' : tasks'[i] = tasks[i]
              /\ task_hierarchy' =
                     {r \in task_hierarchy :
                          r.ancestor \notin all_ids /\ r.descendant \notin all_ids}]_vars

\* C8: delete_task(t, user) for a task that does not exist or belongs to another
\* user returns False and changes no Task row, closure row or dependency edge.
C8_DeleteNotFound ==
    [][(/\ last'.op = "delete_task"
        /\ ~(last'.a \in DOMAIN tasks /\ tasks[last'.a].user_id = last'.user))
       => (/\ last'.result = "False"
           /\ tasks' = tasks
           /\ task_hierarchy' = task_hierarchy
           /\ task_dependencies' = task_dependencies)]_vars

\* a refused delete of another user's task while that task carries a dependency
C8_Witness ==
    /\ last.op = "delete_task" /\ last.result = "False"
    /\ last.a \in DOMAIN tasks /\ tasks[last.a].user_id # last.user
    /\ \E e \in task_dependencies : e.source_task_id = last.a

\* C9: a successful add_task adds exactly (new, new, 0) without a parent, and
\* with parent p exactly (a, new, d + 1) for every row (a, p, d) plus
\* (new, new, 0); no earlier closure row is changed or removed.
C9_AddTaskRows ==
    [][(last'.op = "add_task" /\ last'.result = "ok")
       => LET new == last'.a
              p == last'.b
          IN  /\ task_hierarchy \subseteq task_hierarchy'
              /\ task_hierarchy' \ task_hierarchy =
                     IF p = None
                     THEN {Row(new, new, 0)}
                     ELSE {Row(r.ancestor, new, r.depth + 1) :
                               r \in {q \in task_hierarchy : q.descendant = p}}
                          \cup {Row(new, new, 0)}
              /\ Cardinality(task_hierarchy' \ task_hierarchy) =
                     IF p = None THEN 1
                     ELSE Cardinality({q \in task_hierarchy : q.descendant = p}) + 1]_vars

\* a task added two levels down: it got a row from its grandparent at depth 2
C9_Witness ==
    /\ last.op = "add_task" /\ last.result = "ok" /\ last.b # None
    /\ \E r \in task_hierarchy : r.descendant = last.a /\ r.depth = 2

\* C10: add_task with a parent_id naming no task, or a task of another user,
\* fails and creates no Task row and no closure row.
C10_AddTaskParentChecked ==
    [][(/\ last'.op = "add_task"
        /\ last'.b # None
        /\ ~(last'.b \in DOMAIN tasks /\ tasks[last'.b].user_id = last'.user))
       => (/\ last'.result = "error"
           /\ tasks' = tasks
           /\ task_hierarchy' = task_hierarchy)]_vars

\* ---------------------------------------------------- store specification
\* Tasks created and deleted while dependencies are added and removed, from an
\* empty store.
AddDependencyAll ==
    \E s \in TaskIds, t \in TaskIds, u \in Users :
        /\ AddDependencyResult(s, t, u) = "ok" => NextDepId <= MaxAllDepId
        /\ add_dependency(s, t, u)

RemoveDependencyAll ==
    \E d \in 1..MaxAllDepId, u \in Users : remove_dependency(d, u)

NextStore ==
    AddTask \/ DeleteTask \/ AddDependencyAll \/ RemoveDependencyAll

SpecStore == Init /\ [][NextStore]_vars

\* ------------------------------------------- dependency edge properties
OwnsTask(id, user_id) == id \in DOMAIN tasks /\ tasks[id].user_id = user_id

\* C11: add_dependency(s, s, user) is always rejected (as "same task" when s is
\* the caller's task) and adds no edge; no stored edge has source = target.
C11_NoSelfDependency ==
    /\ [](\A e \in task_dependencies : e.source_task_id # e.target_task_id)
    /\ [][(last'.op = "add_dependency" /\ last'.a = last'.b)
          => (/\ last'.result \in {"same_task", "not_found"}
              /\ OwnsTask(last'.a, last'.user) => last'.result = "same_task"
              /\ task_dependencies' = task_dependencies)]_vars

\* a self-dependency on an own task, refused while other edges are stored
C11_Witness ==
    /\ last.op = "add_dependency" /\ last.a = last.b
    /\ last.result = "same_task"
    /\ task_dependencies # {}

\* C12: no two stored edges share (source, target, user); a call repeating a
\* stored edge is rejected as "already exists" and leaves the edges unchanged.
C12_NoDuplicateEdges ==
    /\ [](\A e1 \in task_dependencies, e2 \in task_dependencies :
              (/\ e1.source_task_id = e2.source_task_id
               /\ e1.target_task_id = e2.target_task_id
               /\ e1.user_id = e2.user_id) => e1 = e2)
    /\ [][(/\ last'.op = "add_dependency"
           /\ \E e \in task_dependencies :
                  /\ e.source_task_id = last'.a
                  /\ e.target_task_id = last'.b
                  /\ e.user_id = last'.user)
          => (/\ last'.result = "exists"
              /\ task_dependencies' = task_dependencies)]_vars

\* a repeated edge refused
C12_Witness ==
    /\ last.op = "add_dependency" /\ last.result = "exists"
    /\ \E e \in task_dependencies :
           /\ e.source_task_id = last.a
           /\ e.target_task_id = last.b
           /\ e.user_id = last.user

\* =================================================== daily statistics
\* Datetimes are counted in ticks, TicksPerDay to a calendar day; a date is a
\* day number.  Day 0 is not used, so None never denotes a datetime.
TicksPerDay == 2
MaxCreationDay == 2
WindowDays == 5
DaysPerWeek == 7
Percent == 100

CreationDays == 2..MaxCreationDay
MaxDay == MaxCreationDay + WindowDays + 1
Days == 1..MaxDay

\* datetime.strptime(s, '%Y-%m-%d'): midnight of the day
Midnight(day) == day * TicksPerDay

\* datetime.date() / func.date(column): the time of day is dropped
Date(dt) == dt \div TicksPerDay

\* The deadlines create_task is given here: none, or late on the day that lies
\* WindowDays after the creation day.
Deadlines(creation_day) ==
    {None, Midnight(creation_day + WindowDays) + (TicksPerDay - 1)}

\* The priority levels users give their priorities and tasks.
PriorityLevels == {"high"}

\* priority = None on a task, and the all-NULL priorities row of a LEFT JOIN
\* without a match
NoPriority == "null"
NullPriorityRow == [level |-> NoPriority, user_id |-> None]

\* add_task as create_task calls it, with the priority and date columns:
\* creation_date is the parsed day or the column default (a midnight),
\* completed defaults False.
add_task_columns(user_id, parent_id, priority, creation_date, deadline) ==
    LET new == NextTaskId IN
    /\ new <= MaxTaskId
    /\ task_id_seq' = IF fk_enforced THEN task_id_seq + 1 ELSE task_id_seq
    /\ IF AddTaskViolates(new, parent_id)
       THEN /\ UNCHANGED <<tasks, task_hierarchy>>
            /\ last' = Call("add_task", None, parent_id, user_id, "error")
       ELSE /\ tasks' = [i \in DOMAIN tasks \cup {new} |->
                            IF i = new
                            THEN [user_id |-> user_id, parent_id |-> parent_id,
                                  completed |-> FALSE,
                                  completed_date |-> None,
                                  priority |-> priority,
                                  creation_date |-> creation_date,
                                  deadline |-> deadline]
                            ELSE tasks[i]]
            /\ task_hierarchy' = task_hierarchy \cup AddTaskRows(new, parent_id)
            /\ last' = Call("add_task", new, parent_id, user_id, "ok")
    /\ UNCHANGED <<task_dependencies, fk_enforced, dep_id_seq, priorities, requests>>

\* toggle_task_completion that sets the flag instead of flipping it
toggle_task_completion_SetOnly(task_id, user_id) ==
    /\ IF FindTask(task_id, user_id)
       THEN /\ tasks' = [tasks EXCEPT ![task_id].completed = TRUE]
            /\ last' = Call("toggle_task_completion", task_id, None, user_id,
                            IF tasks[task_id].completed THEN "False" ELSE "True")
       ELSE /\ UNCHANGED tasks
            /\ last' = Call("toggle_task_completion", task_id, None, user_id,
                            "not_found")
    /\ UNCHANGED <<task_hierarchy, task_dependencies, fk_enforced,
                   task_id_seq, dep_id_seq, priorities, requests>>

\* toggle_task_completion: flips the flag of the caller's task and commits;
\* returns None when the task is not found.
toggle_task_completion(task_id, user_id) ==
    /\ IF FindTask(task_id, user_id)
       THEN /\ tasks' = [tasks EXCEPT ![task_id].completed = ~@]
            /\ last' = Call("toggle_task_completion", task_id, None, user_id,
                            IF tasks[task_id].completed THEN "False" ELSE "True")
       ELSE /\ UNCHANGED tasks
            /\ last' = Call("toggle_task_completion", task_id, None, user_id,
                            "not_found")
    /\ UNCHANGED <<task_hierarchy, task_dependencies, fk_enforced,
                   task_id_seq, dep_id_seq, priorities, requests>>

\* `query ... .all()`: the root tasks of the user that could be active in the
\* range (no category or priority filter given).
StatsAllTasks(user_id, start_date, end_date) ==
    {i \in DOMAIN tasks :
        /\ tasks[i].user_id = user_id
        /\ tasks[i].parent_id = None
        /\ Date(tasks[i].creation_date) <= Date(end_date)
        /\ \/ /\ tasks[i].deadline # None
              /\ Date(tasks[i].deadline) >= Date(start_date)
           \/ /\ tasks[i].deadline = None
              /\ ~tasks[i].completed}

\* is_active without the `current_date == today` test for undated tasks
IsActive_AnyDay(i, current_date, today) ==
    /\ Date(tasks[i].creation_date) <= current_date
    /\ IF tasks[i].deadline # None
       THEN Date(tasks[i].deadline) >= current_date
       ELSE ~tasks[i].completed

\* is_active for one task of all_tasks on current_date
IsActive(i, current_date, today) ==
    /\ Date(tasks[i].creation_date) <= current_date
    /\ IF tasks[i].deadline # None
       THEN Date(tasks[i].deadline) >= current_date
       ELSE current_date = today /\ ~tasks[i].completed

\* session.query(Task).filter(Task.parent_id == task.id).all()
DirectSubtasks(i) == {j \in DOMAIN tasks : tasks[j].parent_id = i}

\* the completion test that looks at the root's own flag only
CountsCompleted_OwnFlag(i) == tasks[i].completed

\* the task adds one to completed_tasks
CountsCompleted(i) ==
    IF DirectSubtasks(i) # {}
    THEN \A j \in DirectSubtasks(i) : tasks[j].completed
    ELSE tasks[i].completed

\* the task adds one to in_progress_tasks
CountsInProgress(i) ==
    /\ DirectSubtasks(i) # {}
    /\ ~(\A j \in DirectSubtasks(i) : tasks[j].completed)
    /\ \E j \in DirectSubtasks(i) : tasks[j].completed

\* the status chain with the in-progress branch left out
DayStatus_NoInProgress(total_tasks, completed_tasks, in_progress_tasks) ==
    IF total_tasks = 0 THEN "Free"
    ELSE IF completed_tasks = total_tasks THEN "Completed"
    ELSE "Not started"

DayStatus(total_tasks, completed_tasks, in_progress_tasks) ==
    IF total_tasks = 0 THEN "Free"
    ELSE IF completed_tasks = total_tasks THEN "Completed"
    ELSE IF in_progress_tasks > 0 \/ completed_tasks > 0 THEN "inprogress"
    ELSE "Not started"

\* round(completed_tasks / total_tasks * 100, 2), kept in hundredths of a
\* percent (no quotient falls on a rounding tie for the totals reached here)
CompletionPercentage(total_tasks, completed_tasks) ==
    IF total_tasks > 0
    THEN (2 * completed_tasks * Percent * Percent + total_tasks)
             \div (2 * total_tasks)
    ELSE 0

\* one pass of the `while current_date <= end_date_only` loop
DayEntry(all_tasks, current_date, today) ==
    LET active == {i \in all_tasks : IsActive(i, current_date, today)}
        total_tasks == Cardinality(active)
        completed_tasks == Cardinality({i \in active : CountsCompleted(i)})
        in_progress_tasks == Cardinality({i \in active : CountsInProgress(i)})
    IN [date |-> current_date,
        weekday |-> current_date % DaysPerWeek,
        total_tasks |-> total_tasks,
        completed_tasks |-> completed_tasks,
        status |-> DayStatus(total_tasks, completed_tasks, in_progress_tasks),
        completion_percentage |->
            CompletionPercentage(total_tasks, completed_tasks)]

\* the loop that steps current_date by two days
StatsDays_SkipDays(start_date, end_date) ==
    [k \in 1..((Date(end_date) - Date(start_date)) \div 2 + 1) |->
        Date(start_date) + 2 * (k - 1)]

\* the days the loop visits, in visiting order
StatsDays(start_date, end_date) ==
    [k \in 1..(Date(end_date) - Date(start_date) + 1) |->
        Date(start_date) + (k - 1)]

get_tasks_stats_by_date_range(user_id, start_date, end_date, client_today) ==
    LET all_tasks == StatsAllTasks(user_id, start_date, end_date)
        days == StatsDays(start_date, end_date)
    IN [k \in DOMAIN days |-> DayEntry(all_tasks, days[k], client_today)]

\* get_tasks_stats: the route parses both dates to midnights and hands the
\* client's today on; the call reads the store and changes nothing.
StatsCall(user_id, start_day, end_day, today) ==
    [op |-> "get_tasks_stats_by_date_range", a |-> start_day, b |-> end_day,
     user |-> user_id, today |-> today,
     result |-> get_tasks_stats_by_date_range(
                    user_id, Midnight(start_day), Midnight(end_day), today)]

get_tasks_stats(user_id, start_day, end_day, today) ==
    /\ last' = StatsCall(user_id, start_day, end_day, today)
    /\ UNCHANGED <<tasks, task_hierarchy, task_dependencies, fk_enforced,
                   task_id_seq, dep_id_seq, priorities, requests>>

\* The days a statistics range starts on here: the first and the last.
RangeStarts == {1, MaxDay}

\* The days taken for "today" here: before, on and after the creation days.
Todays == {1} \cup CreationDays \cup {MaxDay}

\* The empty store.  Parents are drawn from the stored tasks, so no statement
\* of these operations depends on foreign keys being enforced.
InitStats ==
    /\ tasks = <<>>
    /\ task_hierarchy = {}
    /\ task_dependencies = {}
    /\ fk_enforced = FALSE
    /\ task_id_seq = 1
    /\ dep_id_seq = 1
    /\ priorities = {}
    /\ requests = NoRequests
    /\ last = NoCall

AddDatedTask ==
    \E u \in Users, p \in {None} \cup DOMAIN tasks, c \in CreationDays :
        \E d \in Deadlines(c) : add_task_columns(u, p, NoPriority, Midnight(c), d)

ToggleTaskCompletion ==
    \E t \in TaskIds, u \in Users : toggle_task_completion(t, u)

GetTasksStats ==
    \E u \in Users, s \in RangeStarts, today \in Todays :
        get_tasks_stats(u, s, MaxDay, today)

NextStats == AddDatedTask \/ ToggleTaskCompletion \/ GetTasksStats

SpecStats == InitStats /\ [][NextStats]_vars

\* Every range over at most MaxRangeTaskId tasks.
MaxRangeTaskId == 1

AddDatedTaskRange ==
    /\ NextTaskId <= MaxRangeTaskId
    /\ AddDatedTask

GetTasksStatsRange ==
    \E u \in Users, s \in Days, e \in Days, today \in Days :
        s <= e /\ get_tasks_stats(u, s, e, today)

NextStatsRange ==
    AddDatedTaskRange \/ ToggleTaskCompletion \/ GetTasksStatsRange

SpecStatsRange == InitStats /\ [][NextStatsRange]_vars

\* ------------------------------------------------ statistics properties
UserRoots(user_id) ==
    {t \in DOMAIN tasks : tasks[t].user_id = user_id /\ tasks[t].parent_id = None}

Dated(t) == tasks[t].deadline # None

\* t is active on day d
ActiveOn(t, d, today) ==
    /\ Date(tasks[t].creation_date) <= d
    /\ \/ Dated(t) /\ Date(tasks[t].deadline) >= d
       \/ ~Dated(t) /\ ~tasks[t].completed /\ d = today

\* t has its deadline WindowDays after its creation day
HasWindow(t) ==
    /\ Dated(t)
    /\ Date(tasks[t].deadline) = Date(tasks[t].creation_date) + WindowDays

InWindow(t, d) ==
    /\ Date(tasks[t].creation_date) <= d
    /\ d <= Date(tasks[t].creation_date) + WindowDays

IsStatsCall(c) == c.op = "get_tasks_stats_by_date_range"

\* C13: for every day of the queried range total_tasks is the number of the
\* user's root tasks active on that day; a root whose deadline is its creation
\* day + 5 is counted on each day of that window and on no day after it.
C13_ActivityPredicate ==
    [][IsStatsCall(last') =>
        \A k \in DOMAIN last'.result :
            LET entry == last'.result[k]
                roots == UserRoots(last'.user)
            IN /\ entry.total_tasks =
                      Cardinality({t \in roots :
                                      ActiveOn(t, entry.date, last'.today)})
               /\ \A t \in roots :
                      HasWindow(t) =>
                          /\ InWindow(t, entry.date) => entry.total_tasks >= 1
                          /\ (roots = {t} /\ ~InWindow(t, entry.date))
                                 => entry.total_tasks = 0]_vars

\* the whole range asked for a user whose one root has the 5-day window: six
\* days count it, the first and the last day of the range do not
C13_Witness ==
    /\ IsStatsCall(last) /\ last.a = 1 /\ last.b = MaxDay
    /\ \E t \in UserRoots(last.user) :
           UserRoots(last.user) = {t} /\ HasWindow(t)
    /\ Cardinality({k \in DOMAIN last.result : last.result[k].total_tasks = 1})
           = WindowDays + 1
    /\ last.result[1].total_tasks = 0
    /\ last.result[MaxDay].total_tasks = 0

\* total_tasks of each day of the range [start_day, MaxDay]
Totals(user_id, start_day, today) ==
    LET stats == get_tasks_stats_by_date_range(
                     user_id, Midnight(start_day), Midnight(MaxDay), today)
    IN [k \in DOMAIN stats |-> stats[k].total_tasks]

\* 1 on the day an undated task created by then would be counted, else 0
CountedOn(t, d, today) ==
    IF d = today /\ Date(tasks[t].creation_date) <= d THEN 1 ELSE 0

\* C14: an undated root is counted only on "today" and only while not
\* completed: a statistics call counts, besides the dated roots, the open
\* undated roots on today and none on any other day; the toggle that completes
\* one takes it out of every day of every range, the next toggle puts it back
\* on today.
C14_UndatedRollForward ==
    /\ [][IsStatsCall(last') =>
            \A k \in DOMAIN last'.result :
                LET entry == last'.result[k]
                    roots == UserRoots(last'.user)
                    dated == {t \in roots : Dated(t)
                                               /\ ActiveOn(t, entry.date, last'.today)}
                    open == {t \in roots : ~Dated(t) /\ ~tasks[t].completed
                                 /\ Date(tasks[t].creation_date) <= entry.date}
                IN entry.total_tasks - Cardinality(dated) =
                       IF entry.date = last'.today THEN Cardinality(open) ELSE 0]_vars
    /\ [][\A u \in Users, t \in TaskIds :
            (/\ last'.op = "toggle_task_completion"
             /\ last'.result \in {"True", "False"}
             /\ last'.user = u /\ last'.a = t
             /\ t \in UserRoots(u)
             /\ ~Dated(t))
            => \A s \in RangeStarts, today \in Todays :
                   LET before == Totals(u, s, today)
                       after == Totals(u, s, today)'
                   IN \A k \in DOMAIN before :
                          after[k] = IF last'.result = "True"
                                     THEN before[k] - CountedOn(t, s + k - 1, today)
                                     ELSE before[k] + CountedOn(t, s + k - 1, today)]_vars

\* an undated root, completed and then reopened, is the one task counted today
C14_Witness ==
    /\ last.op = "toggle_task_completion" /\ last.result = "False"
    /\ UserRoots(last.user) = {last.a}
    /\ ~Dated(last.a)
    /\ \E today \in Todays :
           /\ Totals(last.user, 1, today)[today] = 1
           /\ \A k \in Days : k # today => Totals(last.user, 1, today)[k] = 0

\* the user's roots active on the day of an entry of a recorded call
ActiveRoots(c, entry) ==
    {t \in UserRoots(c.user) : ActiveOn(t, entry.date, c.today)}

Children(t) == {j \in DOMAIN tasks : tasks[j].parent_id = t}

AllChildrenDone(t) == \A j \in Children(t) : tasks[j].completed

SomeChildDone(t) == \E j \in Children(t) : tasks[j].completed

\* fully completed: by the direct subtasks when there are any, else by the flag
Done(t) == IF Children(t) = {} THEN tasks[t].completed ELSE AllChildrenDone(t)

\* some but not all direct subtasks completed
Partial(t) == SomeChildDone(t) /\ ~AllChildrenDone(t)

\* C15: an active root with direct subtasks counts as completed iff all of them
\* are completed, whatever its own flag, and as in progress iff some but not all
\* are; an active root without subtasks counts as completed iff its flag is set.
C15_DerivedCompletion ==
    [][IsStatsCall(last') =>
        \A k \in DOMAIN last'.result :
            LET entry == last'.result[k]
                active == ActiveRoots(last', entry)
            IN /\ entry.completed_tasks =
                      Cardinality({t \in active :
                          \/ Children(t) # {} /\ AllChildrenDone(t)
                          \/ Children(t) = {} /\ tasks[t].completed})
               /\ (entry.total_tasks > 0 /\ entry.completed_tasks = 0)
                      => (entry.status = "inprogress"
                              <=> \E t \in active : Partial(t))]_vars

\* a day whose one active root has its own flag set and one of two subtasks
\* open: nothing counts as completed, the day is in progress
C15_Witness ==
    /\ IsStatsCall(last)
    /\ \E k \in DOMAIN last.result :
           LET entry == last.result[k]
           IN /\ entry.total_tasks = 1
              /\ entry.completed_tasks = 0
              /\ entry.status = "inprogress"
              /\ \E t \in ActiveRoots(last, entry) :
                     tasks[t].completed /\ Partial(t)

\* C16: in every day entry 0 <= completed_tasks <= total_tasks, and the status
\* is Free iff nothing is active, Completed iff all active roots are completed,
\* in progress iff not all are but one is completed or partially completed, and
\* not started in every remaining case.
C16_StatusMapping ==
    [][IsStatsCall(last') =>
        \A k \in DOMAIN last'.result :
            LET entry == last'.result[k]
                active == ActiveRoots(last', entry)
                total == entry.total_tasks
                completed == entry.completed_tasks
                begun == \E t \in active : Done(t) \/ Partial(t)
            IN /\ 0 <= completed /\ completed <= total
               /\ entry.status = "Free" <=> total = 0
               /\ entry.status = "Completed" <=> (total > 0 /\ completed = total)
               /\ entry.status = "inprogress"
                      <=> (total > 0 /\ completed < total /\ begun)
               /\ entry.status = "Not started"
                      <=> (total > 0 /\ completed < total /\ ~begun)]_vars

\* a day in progress because one of two active roots is completed, and a day
\* with an active root on which nothing is begun
C16_Witness ==
    /\ IsStatsCall(last)
    /\ \E k \in DOMAIN last.result :
           /\ last.result[k].status = "inprogress"
           /\ last.result[k].total_tasks = 2
           /\ last.result[k].completed_tasks = 1
    /\ \E k \in DOMAIN last.result : last.result[k].status = "Not started"

\* C17: for start <= end the call returns one entry for each day from start to
\* end, in ascending order of the days, and an entry of a day on which no root
\* of the user is active has total_tasks 0, completed_tasks 0, status Free and
\* completion_percentage 0.
C17_StatsShape ==
    [][(IsStatsCall(last') /\ last'.a <= last'.b) =>
        /\ Len(last'.result) = last'.b - last'.a + 1
        /\ \A k \in DOMAIN last'.result :
               LET entry == last'.result[k]
               IN /\ entry.date = last'.a + (k - 1)
                  /\ ActiveRoots(last', entry) = {}
                         => /\ entry.total_tasks = 0
                            /\ entry.completed_tasks = 0
                            /\ entry.status = "Free"
                            /\ entry.completion_percentage = 0]_vars

\* a range of several days of which some are empty and some are not
C17_Witness ==
    /\ IsStatsCall(last) /\ last.a < last.b
    /\ Len(last.result) = last.b - last.a + 1
    /\ \E k \in DOMAIN last.result :
           last.result[k].status = "Free" /\ last.result[k].date = last.a + (k - 1)
    /\ \E k \in DOMAIN last.result : last.result[k].total_tasks > 0

\* ========================================================= nested view
\* add_user_priority: one row per (level, user); a repeat changes nothing.
add_user_priority(user_id, priority_level) ==
    /\ IF \E q \in priorities : q.user_id = user_id /\ q.level = priority_level
       THEN /\ UNCHANGED priorities
            /\ last' = Call("add_user_priority", None, None, user_id,
                            "exists")
       ELSE /\ priorities' = priorities
                   \cup {[level |-> priority_level, user_id |-> user_id]}
            /\ last' = Call("add_user_priority", None, None, user_id,
                            "ok")
    /\ UNCHANGED <<tasks, task_hierarchy, task_dependencies, fk_enforced,
                   task_id_seq, dep_id_seq, requests>>

\* The rows of the subtasks query: tasks JOIN task_hierarchy on the
\* descendant, LEFT JOIN priorities ON t.priority = p.level (no user in the
\* join condition), WHERE ancestor = :task_id AND depth > 0.  `p` is the
\* priorities row joined in.
SubtasksFlat(task_id) ==
    LET hits == {h \in task_hierarchy :
                    /\ h.ancestor = task_id /\ h.depth > 0
                    /\ h.descendant \in DOMAIN tasks}
        joined(t) == {q \in priorities : q.level = tasks[t].priority}
    IN UNION {{[id |-> h.descendant,
                parent_id |-> tasks[h.descendant].parent_id,
                priority |-> tasks[h.descendant].priority,
                depth |-> h.depth,
                p |-> q] :
                  q \in IF joined(h.descendant) = {}
                        THEN {NullPriorityRow}
                        ELSE joined(h.descendant)} : h \in hits}

\* build_subtask_hierarchy: the child dictionaries of parent_id, as a bag (the
\* list in the order the store returned the rows, which the query fixes by
\* depth only); one dictionary per row of subtasks_flat that names parent_id.
RECURSIVE build_subtask_hierarchy(_, _)
build_subtask_hierarchy(subtasks_flat, parent_id) ==
    LET direct_children == {r \in subtasks_flat : r.parent_id = parent_id}
        child_dict(r) ==
            [id |-> r.id, parent_id |-> r.parent_id, priority |-> r.priority,
             subtasks |-> build_subtask_hierarchy(subtasks_flat, r.id)]
        dicts == {child_dict(r) : r \in direct_children}
    IN [d \in dicts |->
           Cardinality({r \in direct_children : child_dict(r) = d})]

\* get_task_with_subtasks: None for a task that is missing or not the user's
get_task_with_subtasks(task_id, user_id) ==
    IF ~FindTask(task_id, user_id)
    THEN [found |-> FALSE]
    ELSE [found |-> TRUE, id |-> task_id,
          parent_id |-> tasks[task_id].parent_id,
          subtasks |-> build_subtask_hierarchy(SubtasksFlat(task_id), task_id)]

\* A route that answers with get_task_with_subtasks (get_tasks, create_task,
\* update_task, move_task_route): the call reads the store and changes nothing.
view_task(task_id, user_id) ==
    /\ last' = Call("get_task_with_subtasks", task_id, None, user_id,
                    get_task_with_subtasks(task_id, user_id))
    /\ UNCHANGED <<tasks, task_hierarchy, task_dependencies, fk_enforced,
                   task_id_seq, dep_id_seq, priorities, requests>>

AddPriorityTask ==
    \E u \in Users, p \in {None} \cup DOMAIN tasks,
       q \in {NoPriority} \cup PriorityLevels :
        add_task_columns(u, p, q, Midnight(MaxCreationDay), None)

AddUserPriority ==
    \E u \in Users, q \in PriorityLevels : add_user_priority(u, q)

ViewTask ==
    \E t \in TaskIds, u \in Users : view_task(t, u)

NextView == AddPriorityTask \/ AddUserPriority \/ MoveSubtask \/ ViewTask

SpecView == InitStats /\ [][NextView]_vars

\* ---------------------------------------------------- nested view property
\* how often task id occurs as a node of the nested subtasks
RECURSIVE OccurrencesIn(_, _)
OccurrencesIn(subtasks, id) ==
    IF DOMAIN subtasks = {} THEN 0
    ELSE LET d == CHOOSE x \in DOMAIN subtasks : TRUE
             rest == [x \in DOMAIN subtasks \ {d} |-> subtasks[x]]
         IN subtasks[d] * ((IF d.id = id THEN 1 ELSE 0)
                               + OccurrencesIn(d.subtasks, id))
                + OccurrencesIn(rest, id)

\* every node hangs under the node its parent_id names
RECURSIVE NestedUnder(_, _)
NestedUnder(subtasks, node_id) ==
    \A d \in DOMAIN subtasks :
        d.parent_id = node_id /\ NestedUnder(d.subtasks, d.id)

ProperDescendants(task_id) ==
    {h.descendant : h \in {r \in task_hierarchy :
                              r.ancestor = task_id /\ r.depth > 0}}
        \cap DOMAIN tasks

\* C18: get_task_with_subtasks returns None for a task that is missing or not
\* the user's; otherwise the nested structure holds every proper descendant of
\* the closure exactly once, under the node its parent_id names, and no task
\* that is not such a descendant.
C18_NestedView ==
    [][last'.op = "get_task_with_subtasks" =>
        LET r == last'.result
        IN IF ~OwnsTask(last'.a, last'.user)
           THEN ~r.found
           ELSE /\ r.found
                /\ NestedUnder(r.subtasks, last'.a)
                /\ \A t \in DOMAIN tasks :
                       OccurrencesIn(r.subtasks, t) =
                           IF t \in ProperDescendants(last'.a) THEN 1 ELSE 0]_vars

\* ------------------------------------------- dependencies of deleted tasks
\* C19: after delete_task(t) returns True no stored edge has t or one of its
\* former descendants as source or target, and every stored edge references
\* two existing tasks.
C19_DependencyCascade ==
    /\ [][\A t \in TaskIds :
            (/\ last'.op = "delete_task" /\ last'.a = t
             /\ last'.result = "True")
            => \A e \in task_dependencies' :
                   /\ e.source_task_id \notin {t} \cup Descendants(t)
                   /\ e.target_task_id \notin {t} \cup Descendants(t)]_vars
    /\ [](\A e \in task_dependencies :
              /\ e.source_task_id \in DOMAIN tasks
              /\ e.target_task_id \in DOMAIN tasks)

\* ================================================ failing store statements
\* The committed task and closure rows.
Store == [tasks |-> tasks, task_hierarchy |-> task_hierarchy]

\* an except branch that commits what the transaction has done so far
Rollback_KeepsWork(committed, working) == working

\* `except Exception: session.rollback()`: the statements the transaction has
\* executed are discarded, the committed rows stay.
Rollback(committed, working) == committed

\* The rows as the transaction of delete_task sees them after each of its two
\* statements (DELETE FROM task_hierarchy; DELETE FROM tasks or the flush of
\* session.delete).
DeleteStatements(task_id) ==
    LET descendant_ids == Descendants(task_id)
        all_ids == {task_id} \cup descendant_ids
    IN IF descendant_ids # {}
       THEN <<[tasks |-> tasks,
               task_hierarchy |-> DeleteRawHierarchy(all_ids)],
              [tasks |-> DeleteRawTasks(all_ids),
               task_hierarchy |-> DeleteRawHierarchy(all_ids)]>>
       ELSE <<[tasks |-> tasks,
               task_hierarchy |-> DeleteOrmHierarchy(task_id)],
              [tasks |-> DeleteOrmTasks(task_id),
               task_hierarchy |-> DeleteOrmHierarchy(task_id)]>>

\* The statements of delete_task and the commit that ends them.
DeleteSteps == 1..3

\* delete_task in which statement k raises (k = 3: the commit).
delete_task_fails(task_id, user_id, k) ==
    /\ FindTask(task_id, user_id)
    /\ LET working == IF k = 1 THEN Store ELSE DeleteStatements(task_id)[k - 1]
           after == Rollback(Store, working)
       IN /\ tasks' = after.tasks
          /\ task_hierarchy' = after.task_hierarchy
          /\ last' = [op |-> "delete_task", a |-> task_id, b |-> None,
                      user |-> user_id, result |-> "False",
                      working |-> working]
    /\ UNCHANGED <<task_dependencies, fk_enforced, task_id_seq, dep_id_seq,
                   priorities, requests>>

\* Where move_subtask can be when a statement raises: at the DELETE, at one of
\* the SELECTs and upserts of the loops, or at the flush and commit.
MoveStages == {"delete", "insert", "commit"}

\* move_subtask in which a statement raises; at stage "insert" some but not
\* all of the rows have been upserted (the loops run in the order the store
\* returns the rows).
move_subtask_fails(subtask_id, new_parent_id, user_id, stage) ==
    /\ ~MoveRejected(subtask_id, new_parent_id, user_id)
    /\ MoveDescendantIds(subtask_id) # {}
    /\ LET D == MoveDescendantIds(subtask_id)
           severed == MoveSevered(D)
           rows == MoveNewRows(severed, D, subtask_id, new_parent_id)
           working(done) ==
               CASE stage = "delete" -> Store
                 [] stage = "insert" ->
                        [tasks |-> tasks,
                         task_hierarchy |-> Upsert(severed, done)]
                 [] stage = "commit" ->
                        [tasks |-> [tasks EXCEPT
                                       ![subtask_id].parent_id = new_parent_id],
                         task_hierarchy |-> Upsert(severed, rows)]
       IN \E done \in SUBSET rows :
              /\ stage = "insert" => done # rows
              /\ stage # "insert" => done = {}
              /\ tasks' = Rollback(Store, working(done)).tasks
              /\ task_hierarchy' = Rollback(Store, working(done)).task_hierarchy
              /\ last' = [op |-> "move_subtask", a |-> subtask_id,
                          b |-> new_parent_id, user |-> user_id,
                          result |-> "False", working |-> working(done)]
    /\ UNCHANGED <<task_dependencies, fk_enforced, task_id_seq, dep_id_seq,
                   priorities, requests>>

DeleteTaskFails ==
    \E t \in TaskIds, u \in Users, k \in DeleteSteps :
        delete_task_fails(t, u, k)

MoveSubtaskFails ==
    \E t \in TaskIds, p \in {None} \cup TaskIds, u \in Users :
        \E stage \in MoveStages : move_subtask_fails(t, p, u, stage)

NextFail ==
    AddTask \/ DeleteTask \/ MoveSubtask \/ DeleteTaskFails \/ MoveSubtaskFails

SpecFail == Init /\ [][NextFail]_vars

\* a call in which a statement raised
Raised(c) == "working" \in DOMAIN c

\* C20: a delete_task or move_subtask in which a store statement fails returns
\* False and leaves the committed task and closure rows as they were before the
\* call, whatever the transaction had done by then; a move that does not return
\* True commits no change of the closure rows.
C20_AllOrNothing ==
    /\ [][Raised(last') =>
            /\ last'.result = "False"
            /\ tasks' = tasks
            /\ task_hierarchy' = task_hierarchy]_vars
    /\ [][(last'.op \in {"delete_task", "move_subtask"} /\ last'.result # "True")
            => (tasks' = tasks /\ task_hierarchy' = task_hierarchy)]_vars

\* a move that had removed the rows to the old ancestors and upserted part of
\* the new ones when a statement raised
C20_Witness ==
    /\ Raised(last) /\ last.op = "move_subtask" /\ last.result = "False"
    /\ \E r \in task_hierarchy : r \notin last.working.task_hierarchy
    /\ \E r \in last.working.task_hierarchy : r \notin task_hierarchy

\* ------------------------------------------------ the move-to-root scenario
\* R with child S1 with child S2, and nothing else stored
ChainTasks(R, S1, S2) ==
    /\ DOMAIN tasks = {R, S1, S2}
    /\ R # S1 /\ S1 # S2 /\ R # S2
    /\ tasks[R].parent_id = None
    /\ tasks[S1].parent_id = R
    /\ tasks[S2].parent_id = S1

SubtreeRows(S1, S2) == {Row(S1, S1, 0), Row(S1, S2, 1), Row(S2, S2, 0)}

\* C21: add_task(R), add_task(S1 under R), add_task(S2 under S1) leave the rows
\* (R,S2,2), (S1,S2,1), (S2,S2,0); move_subtask(S1, None) then returns True,
\* nulls S1.parent_id, removes every row from R to S1 or S2 and keeps (S1,S1,0),
\* (S1,S2,1), (S2,S2,0); delete_task(R) then removes R and its row only.
C21_MoveToRootScenario ==
    [][\A R \in TaskIds, S1 \in TaskIds, S2 \in TaskIds :
        /\ (/\ DOMAIN tasks = {R, S1} /\ R # S1
            /\ tasks[R].parent_id = None /\ tasks[S1].parent_id = R
            /\ task_hierarchy = {Row(R, R, 0), Row(R, S1, 1), Row(S1, S1, 0)}
            /\ last'.op = "add_task" /\ last'.result = "ok"
            /\ last'.a = S2 /\ last'.b = S1)
           => /\ ChainTasks(R, S1, S2)'
              /\ task_hierarchy' = task_hierarchy
                     \cup {Row(R, S2, 2), Row(S1, S2, 1), Row(S2, S2, 0)}
        /\ (/\ ChainTasks(R, S1, S2)
            /\ task_hierarchy = {Row(R, R, 0), Row(R, S1, 1), Row(R, S2, 2)}
                                    \cup SubtreeRows(S1, S2)
            /\ last'.op = "move_subtask" /\ last'.a = S1 /\ last'.b = None
            /\ last'.user = tasks[S1].user_id)
           => /\ last'.result = "True"
              /\ tasks'[S1].parent_id = None
              /\ tasks'[R] = tasks[R] /\ tasks'[S2] = tasks[S2]
              /\ task_hierarchy' = {Row(R, R, 0)} \cup SubtreeRows(S1, S2)
        /\ (/\ DOMAIN tasks = {R, S1, S2} /\ R # S1 /\ S1 # S2 /\ R # S2
            /\ tasks[R].parent_id = None /\ tasks[S1].parent_id = None
            /\ tasks[S2].parent_id = S1
            /\ task_hierarchy = {Row(R, R, 0)} \cup SubtreeRows(S1, S2)
            /\ last'.op = "delete_task" /\ last'.a = R
            /\ last'.user = tasks[R].user_id)
           => /\ last'.result = "True"
              /\ DOMAIN tasks' = {S1, S2}
              /\ tasks'[S1] = tasks[S1] /\ tasks'[S2] = tasks[S2]
              /\ task_hierarchy' = SubtreeRows(S1, S2)]_vars

\* the end of the scenario: R deleted, S1 a root with S2 below it
C21_Witness ==
    /\ last.op = "delete_task" /\ last.result = "True"
    /\ \E S1 \in TaskIds, S2 \in TaskIds :
           /\ DOMAIN tasks = {S1, S2} /\ S1 # S2 /\ last.a \notin {S1, S2}
           /\ tasks[S1].parent_id = None /\ tasks[S2].parent_id = S1
           /\ task_hierarchy = SubtreeRows(S1, S2)

\* ------------------------------------------- cycle detection, both ways
\* C22: over an acyclic edge set, for distinct own tasks s, t without an edge
\* s -> t, add_dependency(s, t) is refused as circular iff a path from t to s
\* exists; an edge that keeps the graph acyclic is accepted.
C22_NoFalsePositives ==
    [][(/\ last'.op = "add_dependency"
        /\ last'.a # last'.b
        /\ OwnsTask(last'.a, last'.user) /\ OwnsTask(last'.b, last'.user)
        /\ <<last'.a, last'.b>> \notin Edges(last'.user)
        /\ Acyclic(Edges(last'.user)))
       => (/\ last'.result = "circular"
               <=> HasPath(Edges(last'.user), last'.b, last'.a)
           /\ last'.result = "ok"
               <=> Acyclic(Edges(last'.user) \cup {<<last'.a, last'.b>>}))]_vars


\* ---------------------------------------------------------------------------
\* Range filter: get_tasks_with_filters with only the date range given
\* ---------------------------------------------------------------------------

\* The base query of get_tasks_with_filters: the ids of the root tasks of
\* user_id that the range filter keeps (completion_status 'all', no search,
\* category, priority or deadline filter).
get_tasks_with_filters(user_id, start_date, end_date, client_today) ==
    LET today == client_today IN
    {t \in DOMAIN tasks :
        /\ tasks[t].user_id = user_id
        /\ tasks[t].parent_id = None
        /\ Date(tasks[t].creation_date) <= Date(end_date)
        /\ \/ /\ tasks[t].deadline # None
              /\ Date(tasks[t].deadline) >= Date(start_date)
           \/ /\ tasks[t].deadline = None
              /\ ~tasks[t].completed
              /\ Date(start_date) <= today
              /\ today <= Date(end_date)}

\* GET /tasks/search with start_date, end_date and client_today
search_tasks(user_id, start_day, end_day, today) ==
    /\ last' = Call("get_tasks_with_filters", start_day, end_day, user_id,
                    get_tasks_with_filters(user_id, Midnight(start_day),
                                           Midnight(end_day), today))
                @@ [today |-> today]
    /\ UNCHANGED <<tasks, task_hierarchy, task_dependencies, fk_enforced,
                   task_id_seq, dep_id_seq, priorities, requests>>

\* Days a filtered task may be created on or be queried for
FilterDays == 1..(MaxCreationDay + 1)

\* The first and the last of these days: a deadline or a "today" earlier and
\* later than a creation day
FilterEnds == {1, MaxCreationDay + 1}

\* POST /tasks with any creation day and any deadline, also one earlier than
\* the creation day
AddFilterTask ==
    /\ NextTaskId <= MaxRangeTaskId + 1
    /\ \E u \in Users, p \in {None} \cup DOMAIN tasks, c \in FilterDays,
          d \in {None} \cup {Midnight(x) + (TicksPerDay - 1) : x \in FilterEnds} :
           add_task_columns(u, p, NoPriority, Midnight(c), d)

SearchTasks ==
    \E u \in Users, s \in FilterDays, e \in FilterDays, today \in FilterEnds :
        s <= e /\ search_tasks(u, s, e, today)

NextFilter == AddFilterTask \/ ToggleTaskCompletion \/ SearchTasks

SpecFilter == InitStats /\ [][NextFilter]_vars

\* C23: with only the date range given, get_tasks_with_filters(start, end,
\* today) returns a root task of the user iff the task is active, by the
\* per-day predicate of the statistics, on at least one day of [start, end].
C23_RangeFilterMatchesActivity ==
    last.op = "get_tasks_with_filters" =>
        \A t \in UserRoots(last.user) :
            t \in last.result <=>
                \E d \in last.a..last.b : IsActive(t, d, last.today)


\* ---------------------------------------------------------------------------
\* Completion date
\* ---------------------------------------------------------------------------

\* The tasks.completed_date column (added by the migration
\* add_completed_date_and_overdue_threshold, nullable, no default) is NULL in
\* a new row; toggle_task_completion assigns `completed` only.

\* C24: after any sequence of add and toggle operations a task's
\* completed_date is set iff its completed flag is true, and a toggle of a
\* missing or not-owned task returns None and changes nothing.
C24_CompletionDateTracksFlag ==
    [][/\ \A t \in DOMAIN tasks' :
             (tasks'[t].completed_date # None) <=> tasks'[t].completed
       /\ (last'.op = "toggle_task_completion" /\ last'.result = "not_found")
              => UNCHANGED <<tasks, task_hierarchy>>]_vars


\* ---------------------------------------------------------------------------
\* Two requests in flight: move_subtask(t, p) and delete_task(p)
\* ---------------------------------------------------------------------------
\* Each request runs in its own session. A statement reads what is committed
\* when it runs; the two functions take no lock and re-read nothing they have
\* read. A request is cut where the other one can commit in between: after
\* the look-ups that come before its first write.

\* POST /tasks by a client that names one of its own tasks, or none, as parent
AddOwnTask ==
    /\ requests = NoRequests
    /\ \E u \in Users :
           \E p \in {None} \cup {i \in DOMAIN tasks : tasks[i].user_id = u} :
               add_task(u, p)

\* The two requests arrive.
StartRequests ==
    /\ requests = NoRequests
    /\ \E u \in Users, t \in DOMAIN tasks, p \in DOMAIN tasks :
           requests' =
               [move |-> [pc |-> "start", subtask_id |-> t,
                          new_parent_id |-> p, user_id |-> u],
                delete |-> [pc |-> "start", task_id |-> p, user_id |-> u],
                before |-> [tasks |-> tasks, task_hierarchy |-> task_hierarchy],
                order |-> <<>>]
    /\ UNCHANGED <<tasks, task_hierarchy, task_dependencies, fk_enforced,
                   task_id_seq, dep_id_seq, priorities, last>>

\* move_subtask up to `try:`: the look-ups of the subtask and the new parent
\* and the is_descendant look-up.
MoveValidate ==
    LET m == requests.move IN
    /\ m.pc = "start"
    /\ requests' =
           [requests EXCEPT
               !.move = IF MoveRejected(m.subtask_id, m.new_parent_id, m.user_id)
                        THEN [m EXCEPT !.pc = "done"] @@ [result |-> "False"]
                        ELSE [m EXCEPT !.pc = "validated"],
               !.order = Append(@, "move")]
    /\ UNCHANGED <<tasks, task_hierarchy, task_dependencies, fk_enforced,
                   task_id_seq, dep_id_seq, priorities, last>>

\* subtask.parent_id = new_parent_id fails at the flush where foreign keys
\* are enforced and the new parent is gone, or when the subtask row is gone.
MoveApplyViolates(subtask_id, new_parent_id) ==
    \/ subtask_id \notin DOMAIN tasks
    \/ fk_enforced /\ new_parent_id \notin DOMAIN tasks

\* move_subtask from `try:` to the commit, on what is committed now.
MoveApply ==
    LET m == requests.move
        D == MoveDescendantIds(m.subtask_id)
        severed == MoveSevered(D)
        failed == D = {} \/ MoveApplyViolates(m.subtask_id, m.new_parent_id)
        result == IF failed THEN "False" ELSE "True"
    IN  /\ m.pc = "validated"
        /\ IF failed
           THEN UNCHANGED <<tasks, task_hierarchy>>
           ELSE /\ task_hierarchy' =
                       Upsert(severed, MoveNewRows(severed, D, m.subtask_id,
                                                   m.new_parent_id))
                /\ tasks' = [tasks EXCEPT
                                ![m.subtask_id].parent_id = m.new_parent_id]
        /\ requests' = [requests EXCEPT
                           !.move = [m EXCEPT !.pc = "done"] @@ [result |-> result],
                           !.order = Append(@, "move")]
        /\ last' = Call("move_subtask", m.subtask_id, m.new_parent_id,
                        m.user_id, result)
        /\ UNCHANGED <<task_dependencies, fk_enforced, task_id_seq, dep_id_seq,
                       priorities>>

\* delete_task up to the first DELETE: the task look-up and the SELECT of the
\* descendants.
DeleteRead ==
    LET d == requests.delete IN
    /\ d.pc = "start"
    /\ requests' =
           [requests EXCEPT
               !.delete = IF ~FindTask(d.task_id, d.user_id)
                          THEN [d EXCEPT !.pc = "done"] @@ [result |-> "False"]
                          ELSE [d EXCEPT !.pc = "read"]
                               @@ [descendant_ids |-> Descendants(d.task_id)],
               !.order = Append(@, "delete")]
    /\ UNCHANGED <<tasks, task_hierarchy, task_dependencies, fk_enforced,
                   task_id_seq, dep_id_seq, priorities, last>>

\* delete_task from the first DELETE to the commit, with the descendants it
\* read before, on what is committed now.
DeleteApply ==
    LET d == requests.delete
        all_ids == {d.task_id} \cup d.descendant_ids
        failed == IF d.descendant_ids # {}
                  THEN DeleteRawViolates(all_ids)
                  ELSE DeleteOrmViolates(d.task_id)
        result == IF failed THEN "False" ELSE "True"
    IN  /\ d.pc = "read"
        /\ IF failed
           THEN UNCHANGED <<tasks, task_hierarchy>>
           ELSE /\ task_hierarchy' = IF d.descendant_ids # {}
                                     THEN DeleteRawHierarchy(all_ids)
                                     ELSE DeleteOrmHierarchy(d.task_id)
                /\ tasks' = IF d.descendant_ids # {}
                            THEN DeleteRawTasks(all_ids)
                            ELSE DeleteOrmTasks(d.task_id)
        /\ requests' = [requests EXCEPT
                           !.delete = [d EXCEPT !.pc = "done"] @@ [result |-> result],
                           !.order = Append(@, "delete")]
        /\ last' = Call("delete_task", d.task_id, None, d.user_id, result)
        /\ UNCHANGED <<task_dependencies, fk_enforced, task_id_seq, dep_id_seq,
                       priorities>>

NextRace ==
    \/ AddOwnTask \/ StartRequests
    \/ MoveValidate \/ MoveApply \/ DeleteRead \/ DeleteApply

SpecRace == Init /\ [][NextRace]_vars


\* Both requests have returned.
RaceDone == requests.move.pc = "done" /\ requests.delete.pc = "done"

\* The subtree of x when the requests arrived
BeforeSubtree(x) ==
    {r.descendant : r \in {q \in requests.before.task_hierarchy : q.ancestor = x}}

\* When the requests arrived, t and p were two tasks of the caller and p was
\* not in the subtree of t: either request alone would have succeeded.
RaceBothValid ==
    LET m == requests.move
        B == requests.before.tasks
    IN  /\ m.subtask_id # m.new_parent_id
        /\ B[m.subtask_id].user_id = m.user_id
        /\ B[m.new_parent_id].user_id = m.user_id
        /\ m.new_parent_id \notin BeforeSubtree(m.subtask_id)

\* The store that had `gone` deleted from what it held when the requests
\* arrived, and nothing else changed
StoreWithout(gone) ==
    /\ tasks = [i \in DOMAIN requests.before.tasks \ gone |->
                   requests.before.tasks[i]]
    /\ task_hierarchy = {r \in requests.before.task_hierarchy :
                            r.ancestor \notin gone /\ r.descendant \notin gone}

\* delete_task(p) then move_subtask(t, p): the subtree of p is deleted and the
\* move finds no parent.
SerialDeleteMove == StoreWithout(BeforeSubtree(requests.move.new_parent_id))

\* move_subtask(t, p) then delete_task(p): the subtree of p, now holding the
\* subtree of t, is deleted.
SerialMoveDelete ==
    StoreWithout(BeforeSubtree(requests.move.new_parent_id)
                     \cup BeforeSubtree(requests.move.subtask_id))

DanglingParent ==
    \E i \in DOMAIN tasks :
        tasks[i].parent_id # None /\ tasks[i].parent_id \notin DOMAIN tasks

\* C25: when move_subtask(t, p) and delete_task(p) of one user interleave,
\* the committed final state is that of one of the two serial orders; no task
\* is left with a parent_id naming a deleted task, and the closure invariant
\* holds.
C25_SerialisedHierarchyOps ==
    (RaceDone /\ RaceBothValid) =>
        /\ SerialDeleteMove \/ SerialMoveDelete
        /\ ~DanglingParent
        /\ ClosureHolds


\* ---------------------------------------------------------------------------
\* Two add_dependency requests in flight
\* ---------------------------------------------------------------------------
\* task_dependencies has a primary key on id and no unique constraint on
\* (source_task_id, target_task_id, user_id); add_dependency takes no lock.
\* A request is cut between its checks and its INSERT.

\* POST /dependencies before the two requests arrive: at most MaxAllDepId
\* edges are there when they do.
AddDependencyBefore ==
    /\ requests = NoRequests
    /\ NextDepId <= MaxAllDepId
    /\ AddDependency

\* Two requests of one user arrive.
StartAdds ==
    /\ requests = NoRequests
    /\ \E u \in Users, s1 \in DOMAIN tasks, t1 \in DOMAIN tasks,
          s2 \in DOMAIN tasks, t2 \in DOMAIN tasks :
           requests' =
               [adds |-> [i \in 1..2 |->
                             [pc |-> "start", user_id |-> u,
                              source_id |-> IF i = 1 THEN s1 ELSE s2,
                              target_id |-> IF i = 1 THEN t1 ELSE t2,
                              result |-> "none"]]]
    /\ last' = NoCall
    /\ UNCHANGED <<tasks, task_hierarchy, task_dependencies, fk_enforced,
                   task_id_seq, dep_id_seq, priorities>>

\* add_dependency up to the construction of the row: the look-ups of the two
\* tasks, the same-task test, the duplicate look-up and would_create_cycle.
CheckAdd(i) ==
    LET a == requests.adds[i]
        res == AddDependencyResult(a.source_id, a.target_id, a.user_id)
    IN  /\ a.pc = "start"
        /\ requests' =
               [requests EXCEPT
                   !.adds[i] = IF res = "ok"
                               THEN [a EXCEPT !.pc = "checked"]
                               ELSE [a EXCEPT !.pc = "done", !.result = res]]
        /\ last' = IF res = "ok" THEN last
                   ELSE Call("add_dependency", a.source_id, a.target_id,
                             a.user_id, res)
        /\ UNCHANGED <<tasks, task_hierarchy, task_dependencies, fk_enforced,
                       task_id_seq, dep_id_seq, priorities>>

\* session.add(dependency); session.commit()
InsertAdd(i) ==
    LET a == requests.adds[i] IN
    /\ a.pc = "checked"
    /\ task_dependencies' = task_dependencies \cup
           {Dep(NextDepId, a.source_id, a.target_id, a.user_id)}
    /\ dep_id_seq' = IF fk_enforced THEN dep_id_seq + 1 ELSE dep_id_seq
    /\ requests' = [requests EXCEPT
                       !.adds[i] = [a EXCEPT !.pc = "done", !.result = "ok"]]
    /\ last' = Call("add_dependency", a.source_id, a.target_id, a.user_id, "ok")
    /\ UNCHANGED <<tasks, task_hierarchy, fk_enforced, task_id_seq, priorities>>

CheckAdds == \E i \in 1..2 : "adds" \in DOMAIN requests /\ CheckAdd(i)

InsertAdds == \E i \in 1..2 : "adds" \in DOMAIN requests /\ InsertAdd(i)

NextDepRace == AddDependencyBefore \/ StartAdds \/ CheckAdds \/ InsertAdds

SpecDepRace == InitDep /\ [][NextDepRace]_vars

\* Both requests have returned, and both created their dependency.
BothAdded ==
    /\ "adds" \in DOMAIN requests
    /\ \A i \in 1..2 : requests.adds[i].pc = "done"
                       /\ requests.adds[i].result = "ok"

\* C26: of two concurrent add_dependency requests of one user, two for the
\* same (source, target) never both succeed, and two for s -> t and t -> s
\* never both succeed.
C26_AtomicCheckThenInsert ==
    BothAdded =>
        LET a == requests.adds[1]
            b == requests.adds[2]
        IN  /\ ~(a.source_id = b.source_id /\ a.target_id = b.target_id)
            /\ ~(a.source_id = b.target_id /\ a.target_id = b.source_id)



\* ---------------------------------------------------------------------------
\* Weekday aggregation: get_weekly_task_distribution
\* ---------------------------------------------------------------------------

\* date.weekday(): 0 = Monday ... 6 = Sunday
PythonWeekdayNames ==
    <<"Monday", "Tuesday", "Wednesday", "Thursday", "Friday", "Saturday",
      "Sunday">>

\* the names list of get_weekly_task_distribution, indexed by bucket 0..6
BucketWeekdayNames ==
    <<"Sunday", "Monday", "Tuesday", "Wednesday", "Thursday", "Friday",
      "Saturday">>

\* the sum of f[k] over the indices k in S
RECURSIVE SumOver(_, _)
SumOver(f, S) ==
    IF S = {} THEN 0
    ELSE LET k == CHOOSE x \in S : TRUE IN f[k] + SumOver(f, S \ {k})

\* get_weekly_task_distribution: the daily statistics (no client_today is
\* passed on, so today is the server's) added up per `weekday` field.
get_weekly_task_distribution(user_id, start_date, end_date, server_today) ==
    LET daily_stats == get_tasks_stats_by_date_range(user_id, start_date,
                                                     end_date, server_today)
        of(day) == {k \in DOMAIN daily_stats : daily_stats[k].weekday = day}
        total(day) == SumOver([k \in DOMAIN daily_stats |->
                                  daily_stats[k].total_tasks], of(day))
        completed(day) == SumOver([k \in DOMAIN daily_stats |->
                                      daily_stats[k].completed_tasks], of(day))
    IN  [day \in 0..(DaysPerWeek - 1) |->
            [weekday |-> day,
             weekday_name |-> BucketWeekdayNames[day + 1],
             total_tasks |-> total(day),
             completed_tasks |-> completed(day),
             completion_percentage |->
                 CompletionPercentage(total(day), completed(day))]]

\* a caller of get_weekly_task_distribution; the call reads the store only
weekly_distribution(user_id, start_day, end_day, server_today) ==
    /\ last' = [op |-> "get_weekly_task_distribution", a |-> start_day,
                b |-> end_day, user |-> user_id, today |-> server_today,
                result |-> get_weekly_task_distribution(
                               user_id, Midnight(start_day), Midnight(end_day),
                               server_today)]
    /\ UNCHANGED <<tasks, task_hierarchy, task_dependencies, fk_enforced,
                   task_id_seq, dep_id_seq, priorities, requests>>

GetWeeklyDistribution ==
    \E u \in Users, s \in RangeStarts, e \in Days, today \in Todays :
        s <= e /\ weekly_distribution(u, s, e, today)

NextWeekly ==
    AddDatedTaskRange \/ ToggleTaskCompletion \/ GetWeeklyDistribution

SpecWeekly == InitStats /\ [][NextWeekly]_vars

\* the name of the weekday the date falls on
WeekdayNameOf(date) == PythonWeekdayNames[(date % DaysPerWeek) + 1]

\* C27: each of the 7 buckets holds the sums of total_tasks and
\* completed_tasks over exactly the days of [start, end] that fall on the
\* weekday the bucket is named after, and the buckets' total_tasks add up to
\* the sum over all daily entries.
C27_WeekdayAggregation ==
    last.op = "get_weekly_task_distribution" =>
        LET daily == get_tasks_stats_by_date_range(
                         last.user, Midnight(last.a), Midnight(last.b),
                         last.today)
            totals == [k \in DOMAIN daily |-> daily[k].total_tasks]
            dones == [k \in DOMAIN daily |-> daily[k].completed_tasks]
            named(n) == {k \in DOMAIN daily : WeekdayNameOf(daily[k].date) = n}
        IN  /\ DOMAIN last.result = 0..(DaysPerWeek - 1)
            /\ \A day \in DOMAIN last.result :
                   LET bucket == last.result[day] IN
                   /\ bucket.total_tasks = SumOver(totals, named(bucket.weekday_name))
                   /\ bucket.completed_tasks = SumOver(dones, named(bucket.weekday_name))
            /\ SumOver([day \in DOMAIN last.result |->
                           last.result[day].total_tasks], DOMAIN last.result)
                   = SumOver(totals, DOMAIN daily)


\* ---------------------------------------------------------------------------
\* Owner isolation of trees
\* ---------------------------------------------------------------------------

\* POST /tasks by either user, with any stored task or none as parent
AddUserTask ==
    \E u \in Users, p \in {None} \cup DOMAIN tasks :
        add_task_columns(u, p, NoPriority, Midnight(MaxCreationDay), None)

NextOwners == AddUserTask \/ MoveSubtask \/ DeleteTask \/ ViewTask

SpecOwners == Init /\ [][NextOwners]_vars

\* the ids of the dictionaries of a nested subtasks list
RECURSIVE NestedIds(_)
NestedIds(subtasks) ==
    UNION {{d.id} \cup NestedIds(d.subtasks) : d \in DOMAIN subtasks}

\* C28: whatever two users add, move and delete, every closure row links two
\* tasks of one user, delete_task called by u deletes no task of another
\* user, and get_task_with_subtasks called by u returns no task of another
\* user.
C28_OwnerIsolation ==
    [][/\ \A r \in task_hierarchy' :
              (r.ancestor \in DOMAIN tasks' /\ r.descendant \in DOMAIN tasks')
                  => tasks'[r.ancestor].user_id = tasks'[r.descendant].user_id
       /\ last'.op = "delete_task"
              => \A i \in DOMAIN tasks \ DOMAIN tasks' :
                     tasks[i].user_id = last'.user
       /\ (last'.op = "get_task_with_subtasks" /\ last'.result.found)
              => \A i \in {last'.result.id} \cup NestedIds(last'.result.subtasks) :
                     tasks[i].user_id = last'.user]_vars


\* ---------------------------------------------------------------------------
\* Move frame
\* ---------------------------------------------------------------------------

\* C30: a successful move_subtask(t, p) changes no closure row whose
\* descendant lies outside the subtree D of t, no closure row with ancestor
\* and descendant both in D, and no Task field other than t.parent_id.
C30_MoveFrame ==
    [][(last'.op = "move_subtask" /\ last'.result = "True")
       => LET t == last'.a
              D == MoveDescendantIds(t)
              outside(H) == {r \in H : r.descendant \notin D}
              inside(H) == {r \in H : r.ancestor \in D /\ r.descendant \in D}
          IN  /\ outside(task_hierarchy') = outside(task_hierarchy)
              /\ inside(task_hierarchy') = inside(task_hierarchy)
              /\ DOMAIN tasks' = DOMAIN tasks
              /\ \A i \in DOMAIN tasks \ {t} : tasks'[i] = tasks[i]
              /\ tasks' = [tasks EXCEPT ![t].parent_id = last'.b]]_vars

\* a task with a child was moved under another task
C30_Witness ==
    /\ last.op = "move_subtask" /\ last.result = "True" /\ last.b # None
    /\ \E r \in task_hierarchy : r.ancestor = last.a /\ r.depth = 1


\* ---------------------------------------------------------------------------
\* Move round trip and idempotence
\* ---------------------------------------------------------------------------

\* C29: after a successful move_subtask(t, q) of a task t whose parent was p,
\* move_subtask(t, p) succeeds and gives back the closure table and the
\* parent_id values there were before, and a second move_subtask(t, q)
\* succeeds and changes neither the closure table nor a parent_id.
C29_MoveRoundTrip ==
    [][\A t \in TaskIds, q \in {None} \cup TaskIds, p \in {None} \cup TaskIds,
          u \in Users :
           (/\ last'.op = "move_subtask" /\ last'.result = "True"
            /\ last'.a = t /\ last'.b = q /\ last'.user = u
            /\ tasks[t].parent_id = p)
           => /\ ~MoveFails(t, p, u)'
              /\ MoveHierarchy(t, p)' = task_hierarchy
              /\ MoveTasks(t, p)' = tasks
              /\ ~MoveFails(t, q, u)'
              /\ MoveHierarchy(t, q)' = task_hierarchy'
              /\ MoveTasks(t, q)' = tasks']_vars

====
